---- MODULE Spec2Model ----
(***************************************************************************)
(* parseProgramLogs (src/app/utils/program-logs.ts): the transaction log   *)
(* interpreter.  One behaviour of the model is one call: Init is the state *)
(* on entry to logs.forEach, each line action is one run of the forEach    *)
(* callback on the next log line, PostPass is the code after the loop.     *)
(*                                                                         *)
(* Strings.  A string is a sequence of tokens; it stands for the tokens    *)
(* joined by single spaces.  QUOTE stands for the character " glued to     *)
(* its neighbours.  The string tests of the code (startsWith, includes,    *)
(* the two regular expressions, indexOf, slice, charAt) are computed on    *)
(* the tokens; what a test needs to know of the inside of a token is a     *)
(* table over the vocabulary of the modelled lines.                        *)
(***************************************************************************)
EXTENDS Integers, Sequences, FiniteSets, TLC

\* ------------------------------------------------------------- bounds
\* Lines of one input.
MaxLogs == 4
\* Largest instruction index an error descriptor carries.
MaxIndex == 1
\* Largest decimal number a token spells.
MaxUnits == 120
\* Deepest nesting of the nested-invocation inputs (SpecNest).
MaxNest == 10

\* ------------------------------------------------------------- vocabulary
SystemProgram == "11111111111111111111111111111111"
ManifestProgram == "MNFSTqtC93rEfYHB6hF82sKdZpUDFWkViLByLd1k1Ms"
NULL == "<null>"
QUOTE == "\""
NBSP2 == "<nbsp><nbsp>"

\* The tokens \w* matches in full.
WordTokens ==
    {SystemProgram, ManifestProgram, "Program", "Log", "truncated", "invoke",
     "success", "unsuccessful", "failed", "consumed", "of", "compute", "units",
     "custom", "program", "to", "verify", "Transfer"}
    \cup {ToString(n) : n \in 0..MaxUnits}

IsWord(tok) == tok \in WordTokens

\* The tokens \d* matches in full, and Number.parseInt of one.
DigitTokens == {ToString(n) : n \in 0..MaxUnits}
IsDigits(tok) == tok \in DigitTokens
parseInt(tok) == CHOOSE n \in 0..MaxUnits : ToString(n) = tok

\* A token that starts with \[(\d)\] : one digit between the brackets.
MaxDigit == 9
IsLevel(tok) == \E d \in 0..MaxDigit : tok = "[" \o ToString(d) \o "]"
LevelToken(n) == "[" \o ToString(n) \o "]"

\* tok.includes('success'), tok.includes('failed'), tok.startsWith('failed'),
\* tok.endsWith(':') over the vocabulary.
HasSuccess(tok) == tok \in {"success", "unsuccessful"}
HasFailed(tok) == tok \in {"failed", "failed:"}
StartsFailed(tok) == tok \in {"failed", "failed:"}
EndsColon(tok) ==
    tok \in {"log:", "failed:", "error:", "data:", "Transfer:", "logged:", "consumed:"}

\* tok.charAt(0).toUpperCase() + tok.slice(1)
Capitalize(tok) ==
    CASE tok = "failed" -> "Failed"
      [] tok = "failed:" -> "Failed:"
      [] OTHER -> tok

\* tok.slice(1)
DropFirstChar(tok) ==
    CASE tok = "Program" -> "rogram"
      [] tok = "failed" -> "ailed"
      [] OTHER -> tok

\* ------------------------------------------------------------- input
LogLine == <<"Program", "log:", "hello">>
TruncatedLine == <<"Log", "truncated">>
InvokeLine(addr, n) == <<"Program", addr, "invoke", LevelToken(n)>>
SuccessLine(addr) == <<"Program", addr, "success">>
FailedLine(addr, msg) == <<"Program", addr, "failed:">> \o msg
ConsumedLine(addr, n) ==
    <<"Program", addr, "consumed", ToString(n), "of", ToString(MaxUnits), "compute", "units">>
VerifyLine == <<"failed", "to", "verify">>
NativeLine == <<"Transfer:", "insufficient", "lamports">>
DataLine(payload) == <<"Program", "data:", payload>>

ErrMsg == <<"custom", "program", "error:", "0x1">>
OddMsg == <<"unsuccessful", "transfer">>

\* base64 of the discriminator and three record bytes, of the discriminator
\* alone, and of eight other bytes.
FillPayload == "OubyA0txBKkAAAAA"
ShortPayload == "OubyA0txBKk="
OtherPayload == "AQIDBAUGBwg="

\* The lines of the inputs of Spec.
Lines ==
    { LogLine, TruncatedLine,
      InvokeLine(SystemProgram, 1),
      SuccessLine(SystemProgram),
      FailedLine(SystemProgram, ErrMsg), FailedLine(SystemProgram, OddMsg),
      VerifyLine,
      ConsumedLine(SystemProgram, 100),
      NativeLine }

\* The lines of the inputs of SpecEdge: 'Program log:' lines without message
\* and with messages that look like markers, and lines that start with 'failed'.
BareLogLine == <<"Program", "log:">>
LogOf(msg) == <<"Program", "log:">> \o msg
VerifyOddLine == <<"failed", "to", "verify", "success">>

EdgeLines ==
    { InvokeLine(SystemProgram, 1),
      SuccessLine(SystemProgram),
      ConsumedLine(SystemProgram, 100),
      LogLine, BareLogLine,
      LogOf(InvokeLine(SystemProgram, 1)),
      LogOf(SuccessLine(SystemProgram)),
      LogOf(FailedLine(SystemProgram, ErrMsg)),
      LogOf(ConsumedLine(SystemProgram, 100)),
      VerifyLine, VerifyOddLine }

\* The lines of the inputs of SpecData: event payloads under either program.
DataLines ==
    { InvokeLine(SystemProgram, 1), InvokeLine(ManifestProgram, 1),
      SuccessLine(ManifestProgram),
      NativeLine,
      DataLine(FillPayload), DataLine(ShortPayload), DataLine(OtherPayload) }

\* The program invoked at level n of the inputs of SpecNest.
NestAddress(n) == IF n % 2 = 1 THEN ManifestProgram ELSE SystemProgram

NoError == [kind |-> "null", index |-> 0, message |-> <<>>]
OtherError == [kind |-> "AccountInUse", index |-> 0, message |-> <<>>]
InstructionError(i) == [kind |-> "InstructionError", index |-> i, message |-> ErrMsg]
Errors == {NoError, OtherError} \cup {InstructionError(i) : i \in 0..MaxIndex}

\* ------------------------------------------------------------- collaborators
Undefined == [defined |-> FALSE, index |-> 0, message |-> <<>>]

\* The error classifier: a descriptor for an error of one instruction, nothing
\* for any other error.
getTransactionInstructionError(err) ==
    IF err.kind = "InstructionError"
    THEN [defined |-> TRUE, index |-> err.index, message |-> err.message]
    ELSE Undefined

Cluster == "mainnet-beta"

\* The program name resolver: a label, by default the raw address.
getProgramName(address, cluster) ==
    IF address = SystemProgram THEN <<"System", "Program">> ELSE <<address>>

\* Buffer.from(data, 'base64')
BufferFromBase64(data) ==
    CASE data = <<FillPayload>> -> <<58, 230, 242, 3, 75, 113, 4, 169, 0, 0, 0>>
      [] data = <<ShortPayload>> -> <<58, 230, 242, 3, 75, 113, 4, 169>>
      [] data = <<OtherPayload>> -> <<1, 2, 3, 4, 5, 6, 7, 8>>
      [] OTHER -> <<>>

\* The record decoder: it reads a fixed-layout record (scaled down to three
\* bytes) and raises on a buffer too short for it.
FillLogSize == 3
DeserializeThrows(bytes) == Len(bytes) < FillLogSize
PrettyFillLog(bytes) == "{FillLog}"

\* ------------------------------------------------------------- pure parts
VARIABLES
    logs,            \* the lines handed to the callback so far, in order
    error,           \* the error argument
    prettyError,     \* the classifier's answer for it
    depth,
    prettyLogs,
    currentProgram,
    warned,          \* console.warn of prefixBuilder was called
    pc,              \* "lines": in forEach; "done": returned; "threw": raised
    hist,            \* per processed line: its branch, the depth before and after it, the last trace after it
    passLogs         \* prettyLogs as the line pass left it (set by PostPass)

vars == <<logs, error, prettyError, depth, prettyLogs, currentProgram, warned, pc, hist, passLogs>>

MinOf(S) == CHOOSE x \in S : \A y \in S : x <= y

\* Mutant: new Array(indentLevel) for new Array(indentLevel - 1).
prefixBuilderWide(indentLevel) ==
    IF indentLevel <= 0
    THEN <<"> ">>
    ELSE [i \in 1..indentLevel |-> NBSP2] \o <<"> ">>

prefixBuilder(indentLevel) ==
    IF indentLevel <= 0
    THEN <<"> ">>
    ELSE [i \in 1..(indentLevel - 1) |-> NBSP2] \o <<"> ">>

\* prefixBuilder's console.warn
prefixWarns(indentLevel) == indentLevel <= 0

LogMessage(indentLevel, style, text) ==
    [prefix |-> prefixBuilder(indentLevel), style |-> style, text |-> text]

\* log.startsWith('Program log:')
StartsWithProgramLog(log) == Len(log) >= 2 /\ log[1] = "Program" /\ log[2] = "log:"

\* log.replace(/Program log: (.*)/g, ...): the first match takes the rest of the line.
PassiveMatches(log) ==
    {i \in 1..(Len(log) - 2) : log[i] = "Program" /\ log[i + 1] = "log:"}

\* Mutant: the captured message is left out of the replacement.
PassiveTenseNoMessage(log) ==
    IF PassiveMatches(log) = {}
    THEN log
    ELSE LET i == MinOf(PassiveMatches(log))
         IN  SubSeq(log, 1, i - 1) \o <<"Program", "logged:", QUOTE, QUOTE>>

PassiveTense(log) ==
    IF PassiveMatches(log) = {}
    THEN log
    ELSE LET i == MinOf(PassiveMatches(log))
         IN  SubSeq(log, 1, i - 1) \o <<"Program", "logged:", QUOTE>>
                 \o SubSeq(log, i + 2, Len(log)) \o <<QUOTE>>

\* log.startsWith('Log truncated')
StartsWithLogTruncated(log) == Len(log) >= 2 /\ log[1] = "Log" /\ log[2] = "truncated"

\* Array.from(log.matchAll(/Program (\w*) invoke \[(\d)\]/g)): where the matches start.
InvokeMatches(log) ==
    {i \in 1..(Len(log) - 3) :
        /\ log[i] = "Program"
        /\ IsWord(log[i + 1])
        /\ log[i + 2] = "invoke"
        /\ IsLevel(log[i + 3])}

\* matches[0][1]
programAddressOf(log) == log[MinOf(InvokeMatches(log)) + 1]

IncludesSuccess(log) == \E i \in 1..Len(log) : HasSuccess(log[i])
IncludesFailed(log) == \E i \in 1..Len(log) : HasFailed(log[i])
StartsWithFailed(log) == Len(log) >= 1 /\ StartsFailed(log[1])

\* log.slice(log.indexOf(': ') + 2); indexOf is -1 when no ': ' occurs.
ColonSpaces(log) == {i \in 1..(Len(log) - 1) : EndsColon(log[i])}
\* Mutant: lastIndexOf for indexOf.
AfterLastColon(log) ==
    IF ColonSpaces(log) = {}
    THEN IF log = <<>> THEN log ELSE <<DropFirstChar(log[1])>> \o Tail(log)
    ELSE SubSeq(log, (CHOOSE i \in ColonSpaces(log) : \A j \in ColonSpaces(log) : j <= i) + 1,
                Len(log))

AfterColon(log) ==
    IF ColonSpaces(log) = {}
    THEN IF log = <<>> THEN log ELSE <<DropFirstChar(log[1])>> \o Tail(log)
    ELSE SubSeq(log, MinOf(ColonSpaces(log)) + 1, Len(log))

\* currText of the failure branch
FailedText(log) ==
    IF StartsWithFailed(log)
    THEN <<Capitalize(log[1])>> \o Tail(log)
    ELSE <<"Program", "returned", "error:", QUOTE>> \o AfterColon(log) \o <<QUOTE>>

\* The depth the failure line is printed at: bumped for a line that starts with 'failed'.
\* Mutant: the depth++ of the line that starts with 'failed' dropped.
FailedDepthFlat(log, d) == d

FailedDepth(log, d) == IF StartsWithFailed(log) THEN d + 1 ELSE d

\* log.replace(/Program \w* consumed (\d*) (.*)/g, ...): where the matches start.
ConsumedMatches(log) ==
    {i \in 1..(Len(log) - 4) :
        /\ log[i] = "Program"
        /\ IsWord(log[i + 1])
        /\ log[i + 2] = "consumed"
        /\ IsDigits(log[i + 3])}

ConsumedRewrite(log) ==
    IF ConsumedMatches(log) = {}
    THEN log
    ELSE LET i == MinOf(ConsumedMatches(log))
         IN  SubSeq(log, 1, i - 1) \o <<"Program", "consumed:", log[i + 3]>>
                 \o SubSeq(log, i + 4, Len(log))

\* p1 of the first match, parsed
ConsumedAmount(log) == parseInt(log[MinOf(ConsumedMatches(log)) + 3])

\* Mutant: depth >= 1 for depth === 1.
CountsUnitsNested(d) == d >= 1

\* if (depth === 1) of the replace callback
CountsUnits(d) == d = 1

\* Mutants: depth <= 1 for depth === 0.
OpensTraceShallow(d) == d <= 1
NeedsSynthShallow(d) == d <= 1

\* if (depth === 0) of the invocation branch, and of the last branch
OpensTrace(d) == d = 0
NeedsSynth(d) == d = 0

InvokedTrace(programAddress) ==
    [computeUnits |-> 0, failed |-> FALSE, invokedProgram |-> programAddress,
     logs |-> <<>>, truncated |-> FALSE]

SynthTrace ==
    [computeUnits |-> 0, failed |-> FALSE, invokedProgram |-> NULL,
     logs |-> <<>>, truncated |-> FALSE]

\* Mutant: failed: false for failed: true.
ErrorTraceNotFailed ==
    [computeUnits |-> 0, failed |-> FALSE, invokedProgram |-> NULL,
     logs |-> <<>>, truncated |-> FALSE]

ErrorTrace ==
    [computeUnits |-> 0, failed |-> TRUE, invokedProgram |-> NULL,
     logs |-> <<>>, truncated |-> FALSE]

\* Mutant: the marker is also kept as a muted line.
SetTruncatedWithLine(pl) ==
    [pl EXCEPT ![Len(pl)] =
        [@ EXCEPT !.truncated = TRUE,
                  !.logs = Append(@, [prefix |-> <<"> ">>, style |-> "muted",
                                      text |-> <<"Log", "truncated">>])]]

\* prettyLogs[prettyLogs.length - 1].truncated = true, for a non-empty prettyLogs
SetTruncated(pl) == [pl EXCEPT ![Len(pl)].truncated = TRUE]

\* currentProgram.pop(): nothing happens on an empty array
Pop(s) == IF s = <<>> THEN s ELSE SubSeq(s, 1, Len(s) - 1)

\* Mutant: unshift for push.
PushLogFront(pl, msg) == [pl EXCEPT ![Len(pl)].logs = <<msg>> \o @]

\* prettyLogs[prettyLogs.length - 1].logs.push(msg), for a non-empty prettyLogs
PushLog(pl, msg) == [pl EXCEPT ![Len(pl)].logs = Append(@, msg)]

\* log.includes("Program data: ") && currentProgram[currentProgram.length - 1] == the address
IsManifestData(log, cp) ==
    /\ \E i \in 1..(Len(log) - 1) : log[i] = "Program" /\ log[i + 1] = "data:"
    /\ cp # <<>>
    /\ cp[Len(cp)] = ManifestProgram

\* log.substring("Program data: ".length), for a line that starts with it
DataOf(log) ==
    IF Len(log) >= 2 /\ log[1] = "Program" /\ log[2] = "data:"
    THEN SubSeq(log, 3, Len(log))
    ELSE <<>>

fillLogPrefix == <<58, 230, 242, 3, 75, 113, 4, 169>>

\* buffer.subarray(from, to)
Subarray(buffer, from, to) ==
    SubSeq(buffer, from + 1, IF to < Len(buffer) THEN to ELSE Len(buffer))

isEqualBytes(bytes1, bytes2) ==
    IF Len(bytes1) # Len(bytes2)
    THEN FALSE
    ELSE \A i \in 1..Len(bytes1) : bytes1[i] = bytes2[i]

\* The lines 144-150: the record decoder is called on this line.
DecodesFill(log, cp) ==
    /\ IsManifestData(log, cp)
    /\ isEqualBytes(fillLogPrefix, Subarray(BufferFromBase64(DataOf(log)), 0, 8))

FillBody(log) ==
    LET buffer == BufferFromBase64(DataOf(log)) IN Subarray(buffer, 8, Len(buffer))

FillText(log) == <<"MFX", "Fill", "Log:", PrettyFillLog(FillBody(log))>>

\* The code after the loop, on the traces pl with the descriptor pe.
\* Mutant: an index outside the produced traces synthesizes a trace as well.
SynthOnErrorOutside(pl, pe) ==
    IF pe.defined /\ (Len(pl) = 0 \/ pe.index >= Len(pl)) THEN Append(pl, ErrorTrace) ELSE pl

SynthOnError(pl, pe) ==
    IF pe.defined /\ Len(pl) = 0 THEN Append(pl, ErrorTrace) ELSE pl

AttributesTo(pl, pe) == pe.defined /\ pe.index = Len(pl) - 1

\* Mutant: the test of failedIx.failed dropped.
AttributeErrorAgain(pl, pe) ==
    IF AttributesTo(pl, pe)
    THEN [pl EXCEPT ![pe.index + 1] =
            [@ EXCEPT !.failed = TRUE,
                      !.logs = Append(@, LogMessage(1, "warning",
                                  <<"Runtime", "error:">> \o pe.message))]]
    ELSE pl

\* Mutant: failedIx.failed = true dropped.
AttributeErrorLogOnly(pl, pe) ==
    IF AttributesTo(pl, pe) /\ ~pl[pe.index + 1].failed
    THEN [pl EXCEPT ![pe.index + 1].logs =
            Append(@, LogMessage(1, "warning", <<"Runtime", "error:">> \o pe.message))]
    ELSE pl

AttributeError(pl, pe) ==
    IF AttributesTo(pl, pe) /\ ~pl[pe.index + 1].failed
    THEN [pl EXCEPT ![pe.index + 1] =
            [@ EXCEPT !.failed = TRUE,
                      !.logs = Append(@, LogMessage(1, "warning",
                                  <<"Runtime", "error:">> \o pe.message))]]
    ELSE pl

\* ------------------------------------------------------------- the call
Init ==
    /\ logs = <<>>
    /\ error \in Errors
    /\ prettyError = (IF error.kind # "null" THEN getTransactionInstructionError(error) ELSE Undefined)
    /\ depth = 0
    /\ prettyLogs = <<>>
    /\ currentProgram = <<>>
    /\ warned = FALSE
    /\ pc = "lines"
    /\ hist = <<>>
    /\ passLogs = <<>>

\* What every run of the callback does to the bookkeeping of the model.
Take(log) ==
    /\ pc = "lines"
    /\ logs' = Append(logs, log)
    /\ UNCHANGED <<error, prettyError, passLogs>>

Note(kind) ==
    hist' = Append(hist, [kind |-> kind, d0 |-> depth, d1 |-> depth', trace |-> Len(prettyLogs')])

\* A TypeError leaves the callback and the call: prettyLogs[-1] is undefined.
Throw(cp) ==
    /\ pc' = "threw"
    /\ currentProgram' = cp
    /\ UNCHANGED <<depth, prettyLogs, warned>>

\* lines 48-58
ProgramLogStep(log) ==
    /\ StartsWithProgramLog(log)
    /\ Take(log)
    /\ IF prettyLogs = <<>>
       THEN Throw(currentProgram)
       ELSE /\ prettyLogs' = PushLog(prettyLogs, LogMessage(depth, "muted", PassiveTense(log)))
            /\ warned' = (warned \/ prefixWarns(depth))
            /\ UNCHANGED <<depth, currentProgram, pc>>
    /\ Note("log")

\* lines 59-60
LogTruncatedStep(log) ==
    /\ ~StartsWithProgramLog(log)
    /\ StartsWithLogTruncated(log)
    /\ Take(log)
    /\ IF prettyLogs = <<>>
       THEN Throw(currentProgram)
       ELSE /\ prettyLogs' = SetTruncated(prettyLogs)
            /\ UNCHANGED <<depth, currentProgram, warned, pc>>
    /\ Note("truncated")

\* The line reaches the else branch of line 61.
IsMarkerCandidate(log) == ~StartsWithProgramLog(log) /\ ~StartsWithLogTruncated(log)

\* lines 62-87
InvokeStep(log) ==
    /\ IsMarkerCandidate(log)
    /\ InvokeMatches(log) # {}
    /\ Take(log)
    /\ LET programAddress == programAddressOf(log)
           programName == getProgramName(programAddress, Cluster)
           pushed == Append(currentProgram, programAddress)
       IN  IF OpensTrace(depth)
           THEN /\ prettyLogs' = Append(prettyLogs, InvokedTrace(programAddress))
                /\ currentProgram' = pushed
                /\ depth' = depth + 1
                /\ UNCHANGED <<warned, pc>>
           ELSE IF prettyLogs = <<>>
           THEN Throw(pushed)
           ELSE /\ prettyLogs' = PushLog(prettyLogs,
                                    LogMessage(depth, "info", <<"Program", "invoked:">> \o programName))
                /\ warned' = (warned \/ prefixWarns(depth))
                /\ currentProgram' = pushed
                /\ depth' = depth + 1
                /\ UNCHANGED pc
    /\ Note("invoke")

\* lines 88-95
SuccessStep(log) ==
    /\ IsMarkerCandidate(log)
    /\ InvokeMatches(log) = {}
    /\ IncludesSuccess(log)
    /\ Take(log)
    /\ IF prettyLogs = <<>>
       THEN Throw(Pop(currentProgram))
       ELSE /\ currentProgram' = Pop(currentProgram)
            /\ prettyLogs' = PushLog(prettyLogs,
                                LogMessage(depth, "success", <<"Program", "returned", "success">>))
            /\ warned' = (warned \/ prefixWarns(depth))
            /\ depth' = depth - 1
            /\ UNCHANGED pc
    /\ Note("success")

\* lines 96-113
FailedStep(log) ==
    /\ IsMarkerCandidate(log)
    /\ InvokeMatches(log) = {}
    /\ ~IncludesSuccess(log)
    /\ IncludesFailed(log)
    /\ Take(log)
    /\ IF prettyLogs = <<>>
       THEN Throw(Pop(currentProgram))
       ELSE /\ currentProgram' = Pop(currentProgram)
            /\ prettyLogs' =
                   PushLog([prettyLogs EXCEPT ![Len(prettyLogs)].failed = TRUE],
                           LogMessage(FailedDepth(log, depth), "warning", FailedText(log)))
            /\ warned' = (warned \/ prefixWarns(FailedDepth(log, depth)))
            /\ depth' = FailedDepth(log, depth) - 1
            /\ UNCHANGED pc
    /\ Note("failed")

\* lines 114-176
OtherStep(log) ==
    /\ IsMarkerCandidate(log)
    /\ InvokeMatches(log) = {}
    /\ ~IncludesSuccess(log)
    /\ ~IncludesFailed(log)
    /\ Take(log)
    /\ LET synth == NeedsSynth(depth)
           d == IF synth THEN depth + 1 ELSE depth
           pl0 == IF synth THEN Append(prettyLogs, SynthTrace) ELSE prettyLogs
       IN  IF pl0 = <<>>
           THEN Throw(currentProgram)
           ELSE LET pl1 == IF ConsumedMatches(log) # {} /\ CountsUnits(d)
                           THEN [pl0 EXCEPT ![Len(pl0)].computeUnits = @ + ConsumedAmount(log)]
                           ELSE pl0
                    text == ConsumedRewrite(log)
                    pl2 == PushLog(pl1, LogMessage(d, "muted", text))
                IN  /\ depth' = d
                    /\ warned' = (warned \/ prefixWarns(d))
                    /\ UNCHANGED currentProgram
                    /\ IF DecodesFill(text, currentProgram)
                       THEN IF DeserializeThrows(FillBody(text))
                            THEN pc' = "threw" /\ prettyLogs' = pl2
                            ELSE /\ prettyLogs' = PushLog(pl2, LogMessage(d, "muted", FillText(text)))
                                 /\ UNCHANGED pc
                       ELSE prettyLogs' = pl2 /\ UNCHANGED pc
    /\ Note("other")

\* lines 180-204
PostPass ==
    /\ pc = "lines"
    /\ passLogs' = prettyLogs
    /\ prettyLogs' = AttributeError(SynthOnError(prettyLogs, prettyError), prettyError)
    /\ pc' = "done"
    /\ UNCHANGED <<logs, error, prettyError, depth, currentProgram, warned, hist>>

\* One line of an input over the lines S is handed to the callback.
ProgramLog(S) == \E log \in S : Len(logs) < MaxLogs /\ ProgramLogStep(log)
LogTruncated(S) == \E log \in S : Len(logs) < MaxLogs /\ LogTruncatedStep(log)
Invoke(S) == \E log \in S : Len(logs) < MaxLogs /\ InvokeStep(log)
Success(S) == \E log \in S : Len(logs) < MaxLogs /\ SuccessStep(log)
Failed(S) == \E log \in S : Len(logs) < MaxLogs /\ FailedStep(log)
Other(S) == \E log \in S : Len(logs) < MaxLogs /\ OtherStep(log)

Next ==
    \/ ProgramLog(Lines)
    \/ LogTruncated(Lines)
    \/ Invoke(Lines)
    \/ Success(Lines)
    \/ Failed(Lines)
    \/ Other(Lines)
    \/ PostPass

Spec == Init /\ [][Next]_vars

\* The inputs with event payloads.
NextData == Invoke(DataLines) \/ Success(DataLines) \/ Other(DataLines) \/ PostPass

SpecData == Init /\ [][NextData]_vars

\* The inputs with the edge cases of the 'Program log:' and 'failed' tests.
NextEdge ==
    \/ ProgramLog(EdgeLines)
    \/ Invoke(EdgeLines)
    \/ Success(EdgeLines)
    \/ Failed(EdgeLines)
    \/ Other(EdgeLines)
    \/ PostPass

SpecEdge == Init /\ [][NextEdge]_vars

\* The nested inputs: invocation markers of levels 1, 2, ..., k, then success
\* markers.  A marker the code does not recognise takes the last branch.
NestPushed == Cardinality({i \in 1..Len(logs) : ~IncludesSuccess(logs[i])})
NestPopped == Len(logs) - NestPushed

NestMarker ==
    /\ NestPopped = 0
    /\ Len(logs) < MaxNest
    /\ LET log == InvokeLine(NestAddress(Len(logs) + 1), Len(logs) + 1)
       IN  IF InvokeMatches(log) # {} THEN InvokeStep(log) ELSE OtherStep(log)

NestSuccess ==
    /\ NestPopped < NestPushed
    /\ SuccessStep(SuccessLine(NestAddress(NestPushed - NestPopped)))

NextNest == NestMarker \/ NestSuccess \/ PostPass

SpecNest == Init /\ [][NextNest]_vars

\* ------------------------------------------------------------- claims
Returned == pc = "done"
LastLog(trace) == trace.logs[Len(trace.logs)]
\* The prefix of indent level L >= 1: L-1 indent tokens, then "> ".
Indent(L) == [i \in 1..(L - 1) |-> NBSP2] \o <<"> ">>
TakenAt(kind, d) == {j \in 1..Len(hist) : hist[j].kind = kind /\ hist[j].d0 = d}

\* C1: parseProgramLogs never raises an exception, whatever the lines and
\* the error.  (Violated: a 'Program log:' line, a truncation marker, a
\* success or a failure marker as first line reads prettyLogs[-1].)
C1_NeverRaises == pc # "threw"

\* The lines C2 speaks of: no invocation, consumption, success or failure marker.
NoMarker(log) ==
    /\ InvokeMatches(log) = {}
    /\ ConsumedMatches(log) = {}
    /\ ~IncludesSuccess(log)
    /\ ~IncludesFailed(log)
NoMarkerInput == error = NoError /\ \A i \in 1..Len(logs) : NoMarker(logs[i])
NotTruncation(log) == ~StartsWithLogTruncated(log)
MutedText(log) == IF StartsWithProgramLog(log) THEN PassiveTense(log) ELSE log

RECURSIVE UnitsAtDepthOne(_, _)
UnitsAtDepthOne(t, n) ==
    IF n = 0
    THEN 0
    ELSE UnitsAtDepthOne(t, n - 1) +
            (IF /\ hist[n].kind = "other"
                /\ ConsumedMatches(logs[n]) # {}
                /\ hist[n].trace = t
                /\ hist[n].d1 = 1
             THEN ConsumedAmount(logs[n])
             ELSE 0)

\* C3: the computeUnits of every trace is the sum of the amounts of the
\* consumption lines processed while it was the open trace at depth exactly
\* 1; a consumption line at depth 2 or deeper adds nothing.
C3_UnitsOnlyAtDepthOne ==
    pc \in {"lines", "done"} =>
        \A t \in 1..Len(prettyLogs) :
            prettyLogs[t].computeUnits = UnitsAtDepthOne(t, Len(logs))

C3_Witness ==
    /\ Returned
    /\ \E j \in 1..Len(hist) :
          hist[j].kind = "other" /\ ConsumedMatches(logs[j]) # {} /\ hist[j].d1 = 2
    /\ \E t \in 1..Len(prettyLogs) : prettyLogs[t].computeUnits > 0

\* C4 as stated: the traces returned are those of the invocation markers
\* processed at depth 0, at most one synthesized by the line pass and at most
\* one synthesized for an error without traces.
C4_Original ==
    Returned =>
        /\ Len(passLogs) - Cardinality(TakenAt("invoke", 0)) \in {0, 1}
        /\ Len(prettyLogs) - Len(passLogs) \in {0, 1}

\* C4 amended: the number of traces returned is the number of invocation
\* markers processed at depth 0, plus the number of lines that took the last
\* branch at depth 0 (each synthesizes a trace), plus one when an error
\* descriptor exists and the line pass produced no trace.
C4_TraceCount ==
    LET opened == Cardinality(TakenAt("invoke", 0)) + Cardinality(TakenAt("other", 0))
    IN  /\ pc = "lines" => Len(prettyLogs) = opened
        /\ Returned =>
              Len(prettyLogs) = opened + (IF prettyError.defined /\ opened = 0 THEN 1 ELSE 0)

C4_Witness ==
    /\ Returned
    /\ Cardinality(TakenAt("other", 0)) >= 2
    /\ Len(prettyLogs) >= 2

\* C5: with an error descriptor and no trace from the line pass, the result
\* is exactly one trace: invokedProgram absent, no logs, computeUnits 0, not
\* truncated, failed, whatever index the descriptor carries.
C5_EmptyFailedTrace ==
    (Returned /\ prettyError.defined /\ Len(passLogs) = 0) =>
        prettyLogs = << [computeUnits |-> 0, failed |-> TRUE, invokedProgram |-> NULL,
                         logs |-> <<>>, truncated |-> FALSE] >>

C5_Witness ==
    Returned /\ prettyError.defined /\ prettyError.index = MaxIndex /\ Len(passLogs) = 0

\* C6: with a descriptor whose index is that of the last trace: a trace the
\* line pass did not mark failed is marked failed and gets one warning line
\* 'Runtime error: <message>' at indent level 1 as its last line; a trace
\* already marked failed keeps its logs as they are.
C6_RuntimeErrorOnce ==
    (Returned /\ prettyError.defined /\ Len(passLogs) >= 1
        /\ prettyError.index = Len(passLogs) - 1) =>
        LET n == Len(passLogs)
        IN  /\ Len(prettyLogs) = n
            /\ \A t \in 1..(n - 1) : prettyLogs[t] = passLogs[t]
            /\ prettyLogs[n].failed
            /\ IF passLogs[n].failed
               THEN prettyLogs[n].logs = passLogs[n].logs
               ELSE prettyLogs[n].logs =
                       Append(passLogs[n].logs,
                              [prefix |-> Indent(1), style |-> "warning",
                               text |-> <<"Runtime", "error:">> \o prettyError.message])

C6_Witness ==
    /\ Returned
    /\ prettyError.defined
    /\ Len(passLogs) = 2
    /\ prettyError.index = 1
    /\ ~passLogs[2].failed
    /\ Len(prettyLogs[2].logs) >= 2

\* C7 as stated: whenever the descriptor's index i is the index of a produced
\* trace, the last or not, trace i is failed in the result.
C7_Original ==
    (Returned /\ prettyError.defined /\ prettyError.index < Len(prettyLogs)) =>
        prettyLogs[prettyError.index + 1].failed

\* C7 amended: whenever the descriptor's index i is the index of the last
\* trace of the result, trace i is failed in the result.
C7_LastTraceFailed ==
    (Returned /\ prettyError.defined /\ prettyError.index = Len(prettyLogs) - 1) =>
        prettyLogs[prettyError.index + 1].failed

C7_Witness ==
    /\ Returned
    /\ prettyError.defined
    /\ prettyError.index = 0
    /\ Len(passLogs) = 1
    /\ ~passLogs[1].failed
    /\ prettyLogs[1].failed

\* The record decoder was called on the last processed line and failed.
DecodeFailedOnLastLine ==
    /\ Len(logs) >= 1
    /\ hist[Len(hist)].kind = "other"
    /\ DecodesFill(logs[Len(logs)], currentProgram)
    /\ DeserializeThrows(FillBody(logs[Len(logs)]))

\* C8: a failure of the record decoder on a 'Program data:' line of the
\* registered program with the matching discriminator is absorbed: the call
\* goes on, and the line is in the trace as a muted line without the
\* pretty-printed line after it.  (Violated: the exception of the decoder
\* leaves parseProgramLogs.)
C8_DecodeFailureAbsorbed ==
    DecodeFailedOnLastLine =>
        /\ pc # "threw"
        /\ LastLog(prettyLogs[Len(prettyLogs)]).text = logs[Len(logs)]

\* The expected logs of k nested invocations and k successes.
NestedLogs(k) ==
    [i \in 1..(k - 1) |->
        [prefix |-> Indent(i), style |-> "info",
         text |-> <<"Program", "invoked:">> \o getProgramName(NestAddress(i + 1), Cluster)]]
    \o
    [i \in 1..k |->
        [prefix |-> Indent(k - i + 1), style |-> "success",
         text |-> <<"Program", "returned", "success">>]]

NestedResult(k) ==
    /\ Len(prettyLogs) = 1
    /\ prettyLogs[1].invokedProgram = NestAddress(1)
    /\ prettyLogs[1].failed = FALSE
    /\ prettyLogs[1].logs = NestedLogs(k)
    /\ depth = 0
    /\ currentProgram = <<>>

\* The input was k markers of levels 1..k and k success markers, without error descriptor.
NestedInput(k) ==
    pc \in {"done", "threw"} /\ ~prettyError.defined /\ NestPushed = k /\ NestPopped = k

\* C9 as stated: for every k >= 1, k nested invocation markers and k success
\* markers give one trace of the first address, not failed, with k-1 info
\* lines at indent levels 1..k-1 and k success lines at indent levels k..1,
\* and the pass ends at depth 0 with an empty stack.
C9_Original ==
    \A k \in 1..MaxNest : NestedInput(k) => (Returned /\ NestedResult(k))

\* C9 amended: the same for every k from 1 to 9, the levels one digit spells
\* (the pattern of the invocation marker takes a single digit in the brackets).
C9_NestedUpToNine ==
    \A k \in 1..MaxDigit : NestedInput(k) => (Returned /\ NestedResult(k))

C9_Witness ==
    /\ Returned
    /\ NestedInput(MaxDigit)
    /\ Len(prettyLogs[1].logs) = 2 * MaxDigit - 1

\* The shape of the lines of C10.
IsInvokeOf(log, addr) ==
    Len(log) = 4 /\ log[1] = "Program" /\ log[2] = addr /\ log[3] = "invoke" /\ IsLevel(log[4])
IsConsumedOf(log, addr) ==
    Len(log) >= 5 /\ log[1] = "Program" /\ log[2] = addr /\ log[3] = "consumed" /\ IsDigits(log[4])
IsFailedOf(log, addr) ==
    Len(log) >= 4 /\ log[1] = "Program" /\ log[2] = addr /\ log[3] = "failed:"

\* An invocation of addr, consumption lines of addr, 'Program addr failed: <msg>'.
FailingInput(addr) ==
    /\ Len(logs) >= 2
    /\ IsInvokeOf(logs[1], addr)
    /\ \A i \in 2..(Len(logs) - 1) : IsConsumedOf(logs[i], addr)
    /\ IsFailedOf(logs[Len(logs)], addr)

RECURSIVE SumConsumed(_)
SumConsumed(n) ==
    IF n < 2 THEN 0 ELSE SumConsumed(n - 1) + parseInt(logs[n][4])

FailingResult ==
    /\ Len(prettyLogs) = 1
    /\ prettyLogs[1].failed
    /\ prettyLogs[1].computeUnits = SumConsumed(Len(logs) - 1)
    /\ LastLog(prettyLogs[1]) =
          [prefix |-> Indent(1), style |-> "warning",
           text |-> <<"Program", "returned", "error:", QUOTE>>
                        \o SubSeq(logs[Len(logs)], 4, Len(logs[Len(logs)])) \o <<QUOTE>>]
    /\ depth = 0

\* C10 as stated: an invocation of A from depth 0, consumption lines of A,
\* then 'Program A failed: <msg>', whatever <msg>: one trace, failed,
\* computeUnits the sum of the amounts, last line the warning
\* 'Program returned error: "<msg>"' at indent level 1, depth 0 at the end.
C10_Original ==
    \A addr \in {SystemProgram, ManifestProgram} :
        (pc \in {"done", "threw"} /\ FailingInput(addr)) => (Returned /\ FailingResult)

\* C10 amended: the same when no line of the input contains 'success' and the
\* failure line holds no invocation marker (the code tests a line for an
\* invocation marker, then for 'success', before it tests it for 'failed').
C10_FailedTrace ==
    \A addr \in {SystemProgram, ManifestProgram} :
        (/\ pc \in {"done", "threw"}
         /\ FailingInput(addr)
         /\ \A i \in 1..Len(logs) : ~IncludesSuccess(logs[i])
         /\ InvokeMatches(logs[Len(logs)]) = {}) => (Returned /\ FailingResult)

C10_Witness ==
    /\ Returned
    /\ FailingInput(SystemProgram)
    /\ Len(logs) = 4
    /\ ~IncludesSuccess(logs[4])
    /\ prettyLogs[1].computeUnits = 200

\* The line the step hands to the callback, when the step is a run of it.
IsLineStep == Len(logs') = Len(logs) + 1
NewLine == logs'[Len(logs')]

\* C11: a log-truncation marker processed while a trace exists sets truncated
\* on the last trace and changes nothing else: the number of traces, every
\* trace's logs, computeUnits and failed, the depth and the invocation stack.
C11_TruncationFrame ==
    [][(IsLineStep /\ StartsWithLogTruncated(NewLine) /\ prettyLogs # <<>>) =>
          /\ prettyLogs' = [prettyLogs EXCEPT ![Len(prettyLogs)].truncated = TRUE]
          /\ depth' = depth
          /\ currentProgram' = currentProgram
          /\ pc' = pc]_vars

C11_Witness ==
    /\ Len(logs) >= 3
    /\ StartsWithLogTruncated(logs[Len(logs)])
    /\ pc = "lines"
    /\ depth = 2
    /\ prettyLogs[Len(prettyLogs)].truncated
    /\ Len(prettyLogs[Len(prettyLogs)].logs) >= 1

\* The step appends to the last trace the line msg and leaves the rest as it is.
AppendsOnly(msg) ==
    /\ prettyLogs' = [prettyLogs EXCEPT ![Len(prettyLogs)].logs = Append(@, msg)]
    /\ depth' = depth
    /\ currentProgram' = currentProgram
    /\ pc' = pc

PassiveLine(log) ==
    [prefix |-> Indent(depth), style |-> "muted",
     text |-> <<"Program", "logged:", QUOTE>> \o SubSeq(log, 3, Len(log)) \o <<QUOTE>>]

\* C12 as stated: every line that starts with 'Program log:', processed while
\* a trace exists, appends one muted line at the current depth whose text is
\* the passive rewrite of the message, and changes nothing else.
C12_Original ==
    [][(IsLineStep /\ StartsWithProgramLog(NewLine) /\ prettyLogs # <<>>) =>
          AppendsOnly(PassiveLine(NewLine))]_vars

\* C12 amended: the same for every line that starts with 'Program log: ',
\* the marker and a space (the rewrite pattern asks for the space; a line that
\* is 'Program log:' alone is appended as it is).  The message may itself
\* hold 'invoke [n]', 'success', 'failed' or 'consumed <n>'.
C12_PassiveFrame ==
    [][(IsLineStep /\ StartsWithProgramLog(NewLine) /\ Len(NewLine) >= 3
            /\ prettyLogs # <<>>) =>
          AppendsOnly(PassiveLine(NewLine))]_vars

C12_Witness ==
    /\ pc = "lines"
    /\ Len(logs) >= 2
    /\ logs[Len(logs)] = LogOf(SuccessLine(SystemProgram))
    /\ hist[Len(hist)].d0 = 1
    /\ depth = 1
    /\ LastLog(prettyLogs[Len(prettyLogs)]).text =
          <<"Program", "logged:", QUOTE, "Program", SystemProgram, "success", QUOTE>>
    /\ \E i \in 1..(Len(logs) - 1) : logs[i] = LogOf(InvokeLine(SystemProgram, 1))

\* C13: after every processed line the depth counter is the number of
\* addresses on the invocation stack, also after a trace was synthesized for
\* a non-marker line at depth 0, after a line starting with 'failed', and
\* after a success or failure marker that arrives with an empty stack.
\* (Violated: the synthesis increments depth and pushes nothing; the 'failed'
\* line pops and leaves depth; a marker on an empty stack decrements depth.)
C13_DepthIsStackSize == pc = "lines" => depth = Len(currentProgram)

\* C14: the depth counter is never negative after a line, and prefixBuilder
\* is never reached with an indent level <= 0, also when a success or failure
\* marker arrives at depth 0 after an earlier trace has closed.  (Violated:
\* the marker is printed at indent level 0 and leaves the depth at -1.)
C14_IndentAtLeastOne == pc \in {"lines", "done"} => (depth >= 0 /\ ~warned)

\* C15: with at least one trace produced and a descriptor whose index is
\* that of no produced trace, the result is the one of the same lines without
\* error, which is what the line pass left: no trace added, no failed flag
\* set, no line appended.
C15_OutOfBoundsIgnored ==
    (Returned /\ prettyError.defined /\ Len(passLogs) >= 1
        /\ prettyError.index >= Len(passLogs)) =>
        /\ prettyLogs = AttributeError(SynthOnError(passLogs, Undefined), Undefined)
        /\ prettyLogs = passLogs

C15_Witness ==
    /\ Returned
    /\ prettyError.defined
    /\ Len(passLogs) = 1
    /\ prettyError.index = 1
    /\ ~passLogs[1].failed
    /\ Len(passLogs[1].logs) >= 1

\* What C16 says of the step that processes log at the depth of the state.
VerifyFailureStep(log) ==
    LET n == Len(prettyLogs)
    IN  /\ Len(prettyLogs') = n
        /\ \A t \in 1..(n - 1) : prettyLogs'[t] = prettyLogs[t]
        /\ prettyLogs'[n] =
              [prettyLogs[n] EXCEPT
                  !.failed = TRUE,
                  !.logs = Append(@, [prefix |-> Indent(depth + 1), style |-> "warning",
                                      text |-> <<Capitalize(log[1])>> \o Tail(log)])]
        /\ depth' = depth
        /\ pc' = pc

\* C16 as stated: every line that starts with 'failed', processed while a
\* trace exists at depth d, marks the last trace failed, appends one warning
\* line, the whole line with its first letter upper-cased, at indent level
\* d+1, leaves the depth at d and adds no trace.
C16_Original ==
    [][(IsLineStep /\ StartsWithFailed(NewLine) /\ prettyLogs # <<>>) =>
          VerifyFailureStep(NewLine)]_vars

\* C16 amended: the same for every line that starts with 'failed' and holds
\* neither 'success' nor an invocation marker (such a line is taken by the
\* success or the invocation branch, which are tested first).
C16_VerifyFailure ==
    [][(IsLineStep /\ StartsWithFailed(NewLine) /\ ~IncludesSuccess(NewLine)
            /\ InvokeMatches(NewLine) = {} /\ prettyLogs # <<>>) =>
          VerifyFailureStep(NewLine)]_vars

C16_Witness ==
    /\ pc = "lines"
    /\ Len(logs) >= 3
    /\ logs[Len(logs)] = VerifyLine
    /\ hist[Len(hist)].d0 = 2
    /\ depth = 2
    /\ prettyLogs[Len(prettyLogs)].failed
    /\ LastLog(prettyLogs[Len(prettyLogs)]) =
          [prefix |-> <<NBSP2, NBSP2, "> ">>, style |-> "warning",
           text |-> <<"Failed", "to", "verify">>]

\* The sequence a is the beginning of the sequence b.
IsPrefix(a, b) == Len(a) <= Len(b) /\ SubSeq(b, 1, Len(a)) = a

\* C17: over the line pass and the post-pass the trace list is append-only:
\* no trace is removed or reordered, a step changes only the trace that is
\* last after it, and the logs of a trace only grow at the end (so its lines
\* keep the order of the input lines that produced them).
C17_AppendOnly ==
    [][/\ Len(prettyLogs') >= Len(prettyLogs)
       /\ \A t \in 1..Len(prettyLogs) :
             /\ t < Len(prettyLogs') => prettyLogs'[t] = prettyLogs[t]
             /\ prettyLogs'[t].invokedProgram = prettyLogs[t].invokedProgram
             /\ IsPrefix(prettyLogs[t].logs, prettyLogs'[t].logs)]_vars

C17_Witness ==
    /\ Returned
    /\ Len(prettyLogs) = 2
    /\ Len(prettyLogs[1].logs) >= 1
    /\ Len(passLogs[2].logs) >= 1
    /\ Len(prettyLogs[2].logs) = Len(passLogs[2].logs) + 1

\* The runtime's markers, by their shape: the invocation marker with its
\* level, and the success or failure line that ends an invocation.
IsInvocation(log) == IsMarkerCandidate(log) /\ InvokeMatches(log) # {}
LevelOf(log) ==
    CHOOSE d \in 0..MaxDigit : log[MinOf(InvokeMatches(log)) + 3] = LevelToken(d)
IsReturn(log) ==
    Len(log) >= 3 /\ log[1] = "Program" /\ IsWord(log[2]) /\ log[3] \in {"success", "failed:"}

\* The runtime's nesting after the first n lines.
RECURSIVE RuntimeDepth(_)
RuntimeDepth(n) ==
    IF n = 0
    THEN 0
    ELSE RuntimeDepth(n - 1) +
            (CASE IsInvocation(logs[n]) -> 1
               [] ~IsInvocation(logs[n]) /\ IsReturn(logs[n]) -> -1
               [] OTHER -> 0)

\* Every invocation marker carries its true level and is matched by a later
\* success or failure line.
WellNested ==
    /\ \A j \in 1..Len(logs) :
          /\ IsInvocation(logs[j]) => LevelOf(logs[j]) = RuntimeDepth(j - 1) + 1
          /\ (~IsInvocation(logs[j]) /\ IsReturn(logs[j])) => RuntimeDepth(j - 1) >= 1
    /\ RuntimeDepth(Len(logs)) = 0

\* Line j opened a trace of its own.
OpenedTrace(j) ==
    /\ hist[j].trace = (IF j = 1 THEN 0 ELSE hist[j - 1].trace) + 1
    /\ prettyLogs[hist[j].trace].invokedProgram = programAddressOf(logs[j])

\* C18: on a well-nested input the depth at which the parser processes an
\* invocation marker of level n is n-1, and the marker opens a trace of its
\* program exactly when n = 1, also when native lines or consumption lines
\* appear at depth 0 before or between the top-level invocations.
\* (Violated: such a line synthesizes a trace and leaves the depth at 1, so
\* the next level-1 marker is processed at depth 1 and opens no trace.)
C18_DepthMatchesLevel ==
    (Returned /\ WellNested) =>
        \A j \in 1..Len(logs) :
            IsInvocation(logs[j]) =>
                /\ hist[j].d0 = LevelOf(logs[j]) - 1
                /\ OpenedTrace(j) <=> (LevelOf(logs[j]) = 1)

====
